---- MODULE Spec2Model ----
(***************************************************************************)
(* Model of the resumable breadth-first transfer crawler                   *)
(* (scraper/scraper.py: MinterTransferScraper, scraper/utils.py,           *)
(* blockchain/account.py).                                                 *)
(*                                                                         *)
(* AccountNode objects live in a heap (`nodes`): a node reference is an    *)
(* index into it, so that object identity, aliasing and nodes that are     *)
(* referenced by the frontier but no longer attached to the tree are       *)
(* what they are in the Python program.  Checkpoint files hold the         *)
(* serialized (nested record) form of the tree.                            *)
(***************************************************************************)
EXTENDS Integers, Sequences, FiniteSets, TLC

\* ---------------------------------------------------------------- bounds
\* depth to which every run crawls (max_steps)
MaxSteps == 2
\* a fetch returns at most MaxTransfers transfer records
MaxTransfers == 2
\* number of runs of the process over the same checkpoint directory
MaxRuns == 2

\* account addresses of the modelled ledger
Addresses == {"M", "A"}
\* token.minter, the creator that the metadata lookup reports for the token
Minter == "M"
\* value of transfer.get("to_address") when the field is missing or empty
NoAddr == ""
\* a step file that does not exist
NoFile == [exists |-> FALSE, root |-> [address |-> "", children |-> <<>>], frontier |-> <<>>]
\* marker of steps_folder=None
None == "none"
\* the steps folder of the modelled directory
Folder == "folder"

\* ------------------------------------------------------------- utilities
SeqsUpTo(S, n) == UNION {[1..k -> S] : k \in 0..n}

Range(s) == {s[k] : k \in 1..Len(s)}

\* the pages the API can return for an account whose outgoing transfers go to
\* the accounts S: any list of at most MaxTransfers records naming them (a
\* destination can repeat, a record can lack its to_address)
Pages(S) == {t \in SeqsUpTo(S \cup {NoAddr}, MaxTransfers) : Range(t) \ {NoAddr} = S}

\* the enumerations of the set S without repetition
ListOrders(S) ==
    {s \in [1..Cardinality(S) -> S] : \A a, b \in 1..Cardinality(S) : s[a] = s[b] => a = b}

\* list(set): a set of strings is enumerated in the order of the hashes of its
\* members, which the hash seed of the process decides
RECURSIVE ListOfSet(_, _)
ListOfSet(S, order) ==
    IF order = <<>> THEN <<>>
    ELSE (IF Head(order) \in S THEN <<Head(order)>> ELSE <<>>) \o ListOfSet(S, Tail(order))

\* ---------------------------------------------- blockchain/account.py
\* AccountNode(address): a node with an empty child list
AccountNode(address) == [address |-> address, children |-> <<>>]

\* ---------------------------------------------------- scraper/utils.py
RECURSIVE serialize_graph(_, _)
serialize_graph(h, node) ==
    [address |-> h[node].address,
     children |-> [k \in 1..Len(h[node].children) |->
                      serialize_graph(h, h[node].children[k])]]

\* deserialize_graph builds fresh nodes: the node itself first, then its
\* children in list order.  Returns the extended heap and the new node.
RECURSIVE deserialize_graph(_, _)
RECURSIVE deserialize_children(_, _, _)
deserialize_children(h, datas, k) ==
    IF k > Len(datas) THEN [heap |-> h, ids |-> <<>>]
    ELSE LET one == deserialize_graph(h, datas[k])
             rest == deserialize_children(one.heap, datas, k + 1)
         IN  [heap |-> rest.heap, ids |-> <<one.node>> \o rest.ids]

\* a deserialize_graph that builds the child list back to front
deserialize_graph_reversed(h, data) ==
    LET node == Len(h) + 1
        h1 == Append(h, AccountNode(data.address))
        kids == deserialize_children(h1, data.children, 1)
        n == Len(kids.ids)
    IN  [heap |-> [kids.heap EXCEPT ![node].children =
                      [k \in 1..n |-> kids.ids[n + 1 - k]]],
         node |-> node]

deserialize_graph(h, data) ==
    LET node == Len(h) + 1
        h1 == Append(h, AccountNode(data.address))
        kids == deserialize_children(h1, data.children, 1)
    IN  [heap |-> [kids.heap EXCEPT ![node].children = kids.ids], node |-> node]

\* deserialize_graph raises KeyError: data["address"] or data["children"] is
\* missing in the record or in one of the records below it
RECURSIVE deserialize_graph_raises(_)
deserialize_graph_raises(data) ==
    \/ "address" \notin DOMAIN data
    \/ "children" \notin DOMAIN data
    \/ \E k \in 1..Len(data.children) : deserialize_graph_raises(data.children[k])

\* the content of a step file
save_graph_state_to_json(h, root_, frontier_) ==
    [exists |-> TRUE, root |-> serialize_graph(h, root_), frontier |-> frontier_]

\* --------------------------------------------------- scraper/scraper.py
\* load_graph_state_from_json raises KeyError: data["root"] or
\* data["frontier"] is missing, or deserialize_graph raises
load_graph_state_from_json_raises(file) ==
    \/ "root" \notin DOMAIN file
    \/ "frontier" \notin DOMAIN file
    \/ deserialize_graph_raises(file.root)

\* load_graph_state_from_json: the tree is rebuilt in a fresh heap (the
\* objects of the previous tree are not referenced by the crawler any more)
load_graph_state_from_json(file) ==
    LET r == deserialize_graph(<<>>, file.root)
    IN  [heap |-> r.heap, root |-> r.node, frontier |-> file.frontier]

\* fetch_transfers_for_address: the page of a 200 response, [] on any failure
fetch_transfers_for_address(ok, page) == IF ok THEN page ELSE <<>>

\* a get_unique_transfer_accounts without the "if to_addr" test
get_unique_transfer_accounts_unfiltered(transfers, order) ==
    ListOfSet({transfers[k] : k \in 1..Len(transfers)}, <<NoAddr>> \o order)

\* a get_unique_transfer_accounts that collects the addresses in a list
RECURSIVE get_unique_transfer_accounts_list(_, _)
get_unique_transfer_accounts_list(transfers, order) ==
    IF transfers = <<>> THEN <<>>
    ELSE (IF Head(transfers) # NoAddr THEN <<Head(transfers)>> ELSE <<>>)
         \o get_unique_transfer_accounts_list(Tail(transfers), order)

\* get_unique_transfer_accounts: the set of truthy to_address values, as a
\* list
get_unique_transfer_accounts(transfers, order) ==
    ListOfSet({transfers[k] : k \in 1..Len(transfers)} \ {NoAddr}, order)

\* process_node_children, given what the fetch returned: one fresh childless
\* node per unique address, REPLACING node.children
process_node_children(h, node, transfers, order) ==
    LET unique_addresses == get_unique_transfer_accounts(transfers, order)
        n == Len(h)
        children_nodes == [k \in 1..Len(unique_addresses) |-> n + k]
        h1 == h \o [k \in 1..Len(unique_addresses) |-> AccountNode(unique_addresses[k])]
    IN  [heap |-> [h1 EXCEPT ![node].children = children_nodes],
         children |-> children_nodes]

\* count_total_nodes: depth-first walk with an explicit stack (pop takes
\* the last element), counting an address the first time it is seen
RECURSIVE count_loop(_, _, _, _)
count_loop(h, stack, visited, count) ==
    IF stack = <<>> THEN count
    ELSE LET current == stack[Len(stack)]
             rest == SubSeq(stack, 1, Len(stack) - 1)
         IN  IF h[current].address \notin visited
             THEN count_loop(h, rest \o h[current].children,
                             visited \cup {h[current].address}, count + 1)
             ELSE count_loop(h, rest, visited, count)

\* a count_total_nodes that forgets the visited set: every node counts
RECURSIVE count_every_node(_, _)
count_every_node(h, stack) ==
    IF stack = <<>> THEN 0
    ELSE 1 + count_every_node(h, SubSeq(stack, 1, Len(stack) - 1)
                                     \o h[stack[Len(stack)]].children)

count_total_nodes_structural(h, root_) == count_every_node(h, <<root_>>)

count_total_nodes(h, root_) == count_loop(h, <<root_>>, {}, 0)

\* __nodes_by_addresses: the same walk, collecting the first node met for
\* each address that is in the list
RECURSIVE nodes_loop(_, _, _, _, _)
nodes_loop(h, stack, visited, addr_set, result) ==
    IF stack = <<>> THEN result
    ELSE LET current == stack[Len(stack)]
             rest == SubSeq(stack, 1, Len(stack) - 1)
         IN  IF h[current].address \notin visited
             THEN nodes_loop(h, rest \o h[current].children,
                             visited \cup {h[current].address}, addr_set,
                             IF h[current].address \in addr_set
                             THEN Append(result, current) ELSE result)
             ELSE nodes_loop(h, rest, visited, addr_set, result)

_nodes_by_addresses(h, root_, addresses) ==
    nodes_loop(h, <<root_>>, {}, Range(addresses), <<>>)

\* ------------------------------------------------------------ the state
VARIABLES
    ledger,            \* address -> destinations of its transfers in the window
    max_steps,         \* self.max_steps
    disk,              \* steps folder: depth -> content of step_<depth>.json
    pc,                \* position of the process in run_scraper
    hash_order,        \* order of the string hashes in this process
    steps_dir,         \* the steps_folder argument of this run
    token_minter,      \* token.minter of the token this crawler was built with
    nodes,             \* heap of AccountNode objects
    root,              \* self.root
    current_frontier,  \* list of node references
    new_nodes,         \* list of node references built by the scraping loop
    depth,             \* loop variable of run_scraper
    i,                 \* position of the scraping loop in current_frontier
    runs,              \* number of runs started so far
    fetch_log,         \* calls of fetch_transfers_for_address in this run, with
                       \* the non-empty destinations of the transfers returned
    fetched,           \* destinations named by the pages that the calls of the
                       \* scraping loop in progress returned
    cb_log,            \* calls of step_callback in this run
    io_log,            \* step files this run has opened, to read or to write
    resolved,          \* how each depth of this run was resolved
    had,               \* depths whose step file existed when this run started
    prev,              \* the last run that completed over this folder
    before,            \* value of prev when this run started
    clean              \* no call of the API has failed, no file was deleted

vars == <<ledger, max_steps, disk, pc, hash_order, steps_dir, token_minter,
          nodes, root, current_frontier, new_nodes, depth, i, runs, fetch_log,
          fetched, cb_log, io_log, resolved, had, prev, before, clean>>

NoRun == [done |-> FALSE, tree |-> NoFile.root]

Running == pc \in {"step0", "loop", "scrape", "callback"}

\* no process has run yet and the steps folder is empty
Idle ==
    /\ disk = [d \in 0..max_steps |-> NoFile]
    /\ pc = "idle"
    /\ hash_order = <<>>
    /\ steps_dir = None
    /\ token_minter = NoAddr
    /\ nodes = <<>>
    /\ root = 0
    /\ current_frontier = <<>>
    /\ new_nodes = <<>>
    /\ depth = 0
    /\ i = 0
    /\ runs = 0
    /\ fetch_log = <<>>
    /\ fetched = {}
    /\ cb_log = <<>>
    /\ io_log = <<>>
    /\ resolved = <<>>
    /\ had = {}
    /\ prev = NoRun
    /\ before = NoRun
    /\ clean = TRUE

\* any ledger over Addresses
Init ==
    /\ ledger \in [Addresses -> SUBSET Addresses]
    /\ max_steps = MaxSteps
    /\ Idle

\* a ledger over four accounts: the minter sent to A and B, and A and B sent
\* to some of A and C
WideLedgers ==
    {l \in [Addresses \cup {"B", "C"} -> SUBSET {"A", "B", "C"}] :
        /\ l["M"] = {"A", "B"}
        /\ l["A"] \subseteq {"C"}
        /\ l["B"] \subseteq {"A", "C"}
        /\ l["C"] = {}}

InitWide ==
    /\ ledger \in WideLedgers
    /\ max_steps = MaxSteps
    /\ Idle

\* a ledger over five accounts: the minter sent to A and B, A sent to C, B sent
\* to E, and E may have sent to A
ChainLedgers ==
    {l \in [Addresses \cup {"B", "C", "E"} -> SUBSET {"A", "B", "C", "E"}] :
        /\ l["M"] = {"A", "B"}
        /\ l["A"] = {"C"}
        /\ l["B"] = {"E"}
        /\ l["C"] = {}
        /\ l["E"] \subseteq {"A"}}

\* a crawler built with max_steps one above MaxSteps
InitDeep ==
    /\ ledger \in ChainLedgers
    /\ max_steps = MaxSteps + 1
    /\ Idle

\* a run_scraper without the test of steps_folder
Start_unchecked(steps_folder, minter) ==
    /\ ~Running
    /\ runs < MaxRuns
    /\ runs' = runs + 1
    /\ hash_order' \in ListOrders(DOMAIN ledger)
    /\ steps_dir' = steps_folder
    /\ token_minter' = minter
    /\ nodes' = <<AccountNode(token_minter')>>
    /\ root' = 1
    /\ current_frontier' = <<>>
    /\ new_nodes' = <<>>
    /\ depth' = 0
    /\ i' = 0
    /\ fetch_log' = <<>>
    /\ fetched' = {}
    /\ cb_log' = <<>>
    /\ io_log' = <<>>
    /\ resolved' = <<>>
    /\ had' = {d \in 0..max_steps : disk[d].exists}
    /\ before' = prev
    /\ pc' = "step0"
    /\ UNCHANGED <<ledger, max_steps, disk, prev, clean>>

\* MinterTransferScraper(token, max_steps).run(step_callback, steps_folder),
\* for a token whose minter is `minter`: the constructor creates the root
\* from token.minter; run_scraper raises ValueError when steps_folder is None
Start(steps_folder, minter) ==
    /\ ~Running
    /\ runs < MaxRuns
    /\ runs' = runs + 1
    /\ hash_order' \in ListOrders(DOMAIN ledger)
    /\ steps_dir' = steps_folder
    /\ token_minter' = minter
    /\ nodes' = <<AccountNode(token_minter')>>
    /\ root' = 1
    /\ current_frontier' = <<>>
    /\ new_nodes' = <<>>
    /\ depth' = 0
    /\ i' = 0
    /\ fetch_log' = <<>>
    /\ fetched' = {}
    /\ cb_log' = <<>>
    /\ io_log' = <<>>
    /\ resolved' = <<>>
    /\ had' = {d \in 0..max_steps : disk[d].exists}
    /\ before' = prev
    /\ pc' = IF steps_folder = None THEN "aborted" ELSE "step0"
    /\ UNCHANGED <<ledger, max_steps, disk, prev, clean>>

\* step_0.json is read when it exists, but self.root = root_ is forgotten
Step0_keeps_root ==
    /\ pc = "step0"
    /\ IF ~disk[0].exists
       THEN /\ disk' = [disk EXCEPT ![0] =
                          save_graph_state_to_json(nodes, root, <<nodes[root].address>>)]
            /\ UNCHANGED <<nodes, root>>
            /\ current_frontier' = <<root>>
            /\ depth' = 1
            /\ pc' = "loop"
       ELSE IF load_graph_state_from_json_raises(disk[0])
       THEN /\ pc' = "format_error"
            /\ UNCHANGED <<disk, nodes, root, current_frontier, depth>>
       ELSE /\ current_frontier' = <<root>>
            /\ depth' = 1
            /\ pc' = "loop"
            /\ UNCHANGED <<disk, nodes, root>>
    /\ io_log' = Append(io_log, [op |-> IF disk[0].exists THEN "read" ELSE "write",
                                  depth |-> 0])
    /\ UNCHANGED <<ledger, max_steps, hash_order, steps_dir, token_minter,
                   new_nodes, i, runs, fetch_log, fetched, cb_log, resolved,
                   had, prev, before, clean>>

\* step_0.json is written from the root whether or not it exists
Step0_always_writes ==
    /\ pc = "step0"
    /\ disk' = [disk EXCEPT ![0] =
                  save_graph_state_to_json(nodes, root, <<nodes[root].address>>)]
    /\ current_frontier' = <<root>>
    /\ depth' = 1
    /\ pc' = "loop"
    /\ io_log' = Append(io_log, [op |-> "write", depth |-> 0])
    /\ UNCHANGED <<ledger, max_steps, hash_order, steps_dir, token_minter,
                   nodes, root, new_nodes, i, runs, fetch_log, fetched, cb_log,
                   resolved, had, prev, before, clean>>

\* step_0.json: created from the root when absent, loaded otherwise; the
\* frontier stored in it is not used, current_frontier = [self.root]
Step0 ==
    /\ pc = "step0"
    /\ IF ~disk[0].exists
       THEN /\ disk' = [disk EXCEPT ![0] =
                          save_graph_state_to_json(nodes, root, <<nodes[root].address>>)]
            /\ UNCHANGED <<nodes, root>>
            /\ current_frontier' = <<root>>
            /\ depth' = 1
            /\ pc' = "loop"
       ELSE IF load_graph_state_from_json_raises(disk[0])
       THEN /\ pc' = "format_error"
            /\ UNCHANGED <<disk, nodes, root, current_frontier, depth>>
       ELSE LET l == load_graph_state_from_json(disk[0])
            IN  /\ nodes' = l.heap
                /\ root' = l.root
                /\ current_frontier' = <<l.root>>
                /\ depth' = 1
                /\ pc' = "loop"
                /\ UNCHANGED disk
    /\ io_log' = Append(io_log, [op |-> IF disk[0].exists THEN "read" ELSE "write",
                                  depth |-> 0])
    /\ UNCHANGED <<ledger, max_steps, hash_order, steps_dir, token_minter,
                   new_nodes, i, runs, fetch_log, fetched, cb_log, resolved,
                   had, prev, before, clean>>

\* the step file is loaded and the scraping loop is entered all the same
LoadStep_then_scrape ==
    /\ pc = "loop"
    /\ depth <= max_steps
    /\ disk[depth].exists
    /\ IF load_graph_state_from_json_raises(disk[depth])
       THEN /\ pc' = "format_error"
            /\ UNCHANGED <<nodes, root, current_frontier, new_nodes, i,
                           fetched>>
       ELSE LET l == load_graph_state_from_json(disk[depth])
            IN  /\ nodes' = l.heap
                /\ root' = l.root
                /\ current_frontier' = _nodes_by_addresses(l.heap, l.root, l.frontier)
                /\ new_nodes' = <<>>
                /\ i' = 1
                /\ fetched' = {}
                /\ pc' = "scrape"
    /\ io_log' = Append(io_log, [op |-> "read", depth |-> depth])
    /\ UNCHANGED <<ledger, max_steps, disk, hash_order, steps_dir,
                   token_minter, depth, runs, fetch_log, cb_log, resolved, had,
                   prev, before, clean>>

\* a step file that cannot be loaded is treated as absent: the depth is scraped
LoadStep_scrapes_unreadable ==
    /\ pc = "loop"
    /\ depth <= max_steps
    /\ disk[depth].exists
    /\ IF load_graph_state_from_json_raises(disk[depth])
       THEN /\ pc' = "scrape"
            /\ new_nodes' = <<>>
            /\ i' = 1
            /\ fetched' = {}
            /\ UNCHANGED <<nodes, root, current_frontier, resolved>>
       ELSE LET l == load_graph_state_from_json(disk[depth])
            IN  /\ nodes' = l.heap
                /\ root' = l.root
                /\ current_frontier' = _nodes_by_addresses(l.heap, l.root, l.frontier)
                /\ resolved' = Append(resolved, "load")
                /\ fetched' = {}
                /\ pc' = "callback"
                /\ UNCHANGED <<new_nodes, i>>
    /\ io_log' = Append(io_log, [op |-> "read", depth |-> depth])
    /\ UNCHANGED <<ledger, max_steps, disk, hash_order, steps_dir,
                   token_minter, depth, runs, fetch_log, cb_log, had, prev,
                   before, clean>>

\* step_<depth>.json exists: load root and frontier, no API call
LoadStep ==
    /\ pc = "loop"
    /\ depth <= max_steps
    /\ disk[depth].exists
    /\ IF load_graph_state_from_json_raises(disk[depth])
       THEN /\ pc' = "format_error"
            /\ UNCHANGED <<nodes, root, current_frontier, resolved, fetched>>
       ELSE LET l == load_graph_state_from_json(disk[depth])
            IN  /\ nodes' = l.heap
                /\ root' = l.root
                /\ current_frontier' = _nodes_by_addresses(l.heap, l.root, l.frontier)
                /\ resolved' = Append(resolved, "load")
                /\ fetched' = {}
                /\ pc' = "callback"
    /\ io_log' = Append(io_log, [op |-> "read", depth |-> depth])
    /\ UNCHANGED <<ledger, max_steps, disk, hash_order, steps_dir,
                   token_minter, new_nodes, depth, i, runs, fetch_log, cb_log,
                   had, prev, before, clean>>

\* the scraping loop is entered whether or not the step file exists
StartScrape_always ==
    /\ pc = "loop"
    /\ depth <= max_steps
    /\ new_nodes' = <<>>
    /\ i' = 1
    /\ fetched' = {}
    /\ pc' = "scrape"
    /\ UNCHANGED <<ledger, max_steps, io_log, disk, hash_order, steps_dir,
                   token_minter, nodes, root, current_frontier, depth, runs,
                   fetch_log, cb_log, resolved, had, prev, before, clean>>

\* no step file: start the scraping loop over current_frontier
StartScrape ==
    /\ pc = "loop"
    /\ depth <= max_steps
    /\ ~disk[depth].exists
    /\ new_nodes' = <<>>
    /\ i' = 1
    /\ fetched' = {}
    /\ pc' = "scrape"
    /\ UNCHANGED <<ledger, max_steps, io_log, disk, hash_order, steps_dir,
                   token_minter, nodes, root, current_frontier, depth, runs,
                   fetch_log, cb_log, resolved, had, prev, before, clean>>

\* a scraping loop in which a failed call is not caught: the run aborts
ProcessNode_raises ==
    /\ pc = "scrape"
    /\ i <= Len(current_frontier)
    /\ \E ok \in BOOLEAN, page \in Pages(ledger[nodes[current_frontier[i]].address]) :
         LET node == current_frontier[i]
             transfers == fetch_transfers_for_address(ok, page)
             r == process_node_children(nodes, node, transfers, hash_order)
         IN  /\ fetch_log' = Append(fetch_log,
                    [depth |-> depth, address |-> nodes[node].address, ok |-> ok,
                     to |-> Range(transfers) \ {NoAddr}])
             /\ clean' = (clean /\ ok)
             /\ IF ok
                THEN /\ fetched' = fetched \cup (Range(transfers) \ {NoAddr})
                     /\ nodes' = r.heap
                     /\ new_nodes' = new_nodes \o r.children
                     /\ i' = i + 1
                     /\ pc' = pc
                ELSE /\ pc' = "aborted"
                     /\ UNCHANGED <<fetched, nodes, new_nodes, i>>
    /\ UNCHANGED <<ledger, max_steps, io_log, disk, hash_order, steps_dir,
                   token_minter, root, current_frontier, depth, runs, cb_log,
                   resolved, had, prev, before>>

\* one iteration of the scraping loop: fetch_transfers_for_address (the
\* API answers with a page, or the call fails), then process_node_children
\* on the frontier node
ProcessNode ==
    /\ pc = "scrape"
    /\ i <= Len(current_frontier)
    /\ \E ok \in BOOLEAN, page \in Pages(ledger[nodes[current_frontier[i]].address]) :
         LET node == current_frontier[i]
             transfers == fetch_transfers_for_address(ok, page)
             r == process_node_children(nodes, node, transfers, hash_order)
         IN  /\ fetch_log' = Append(fetch_log,
                    [depth |-> depth, address |-> nodes[node].address, ok |-> ok,
                     to |-> Range(transfers) \ {NoAddr}])
             /\ fetched' = fetched \cup (Range(transfers) \ {NoAddr})
             /\ clean' = (clean /\ ok)
             /\ nodes' = r.heap
             /\ new_nodes' = new_nodes \o r.children
    /\ i' = i + 1
    /\ UNCHANGED <<ledger, max_steps, io_log, disk, pc, hash_order, steps_dir,
                   token_minter, root, current_frontier, depth, runs, cb_log,
                   resolved, had, prev, before>>

\* the loop goes on to the observer without writing the step file
SaveStep_unwritten ==
    /\ pc = "scrape"
    /\ i > Len(current_frontier)
    /\ current_frontier' = new_nodes
    /\ resolved' = Append(resolved, "fresh")
    /\ pc' = "callback"
    /\ UNCHANGED <<ledger, max_steps, io_log, disk, hash_order, steps_dir,
                   token_minter, nodes, root, new_nodes, depth, i, runs,
                   fetch_log, fetched, cb_log, had, prev, before, clean>>

\* the step file is written inside the scraping loop, after each node
SaveStep_in_loop ==
    /\ pc = "scrape"
    /\ i > 1 \/ i > Len(current_frontier)
    /\ disk' = [disk EXCEPT ![depth] =
                  save_graph_state_to_json(nodes, root,
                      [k \in 1..Len(new_nodes) |-> nodes[new_nodes[k]].address])]
    /\ IF i > Len(current_frontier)
       THEN /\ current_frontier' = new_nodes
            /\ resolved' = Append(resolved, "fresh")
            /\ pc' = "callback"
       ELSE UNCHANGED <<current_frontier, resolved, pc>>
    /\ io_log' = Append(io_log, [op |-> "write", depth |-> depth])
    /\ UNCHANGED <<ledger, max_steps, hash_order, steps_dir, token_minter,
                   nodes, root, new_nodes, depth, i, runs, fetch_log, fetched,
                   cb_log, had, prev, before, clean>>

\* the step file is written but current_frontier = new_nodes is forgotten
SaveStep_keep_frontier ==
    /\ pc = "scrape"
    /\ i > Len(current_frontier)
    /\ disk' = [disk EXCEPT ![depth] =
                  save_graph_state_to_json(nodes, root,
                      [k \in 1..Len(new_nodes) |-> nodes[new_nodes[k]].address])]
    /\ resolved' = Append(resolved, "fresh")
    /\ pc' = "callback"
    /\ io_log' = Append(io_log, [op |-> "write", depth |-> depth])
    /\ UNCHANGED <<ledger, max_steps, hash_order, steps_dir, token_minter,
                   nodes, root, current_frontier, new_nodes, depth, i, runs,
                   fetch_log, fetched, cb_log, had, prev, before, clean>>

\* after the loop: current_frontier = new_nodes, step_<depth>.json written
SaveStep ==
    /\ pc = "scrape"
    /\ i > Len(current_frontier)
    /\ current_frontier' = new_nodes
    /\ disk' = [disk EXCEPT ![depth] =
                  save_graph_state_to_json(nodes, root,
                      [k \in 1..Len(new_nodes) |-> nodes[new_nodes[k]].address])]
    /\ resolved' = Append(resolved, "fresh")
    /\ pc' = "callback"
    /\ io_log' = Append(io_log, [op |-> "write", depth |-> depth])
    /\ UNCHANGED <<ledger, max_steps, hash_order, steps_dir, token_minter,
                   nodes, root, new_nodes, depth, i, runs, fetch_log, fetched,
                   cb_log, had, prev, before, clean>>

\* a loop that does not advance: the same depth is resolved again
Callback_same_depth ==
    /\ pc = "callback"
    /\ cb_log' = Append(cb_log, [depth |-> depth,
                                 total_nodes_count |-> count_total_nodes(nodes, root),
                                 frontier_count |-> Len(current_frontier)])
    /\ depth' = depth
    /\ pc' = "loop"
    /\ UNCHANGED <<ledger, max_steps, io_log, disk, hash_order, steps_dir,
                   token_minter, nodes, root, current_frontier, new_nodes, i,
                   runs, fetch_log, fetched, resolved, had, prev, before,
                   clean>>

\* a loop that breaks once a depth ends with an empty frontier
Callback_early_stop ==
    /\ pc = "callback"
    /\ cb_log' = Append(cb_log, [depth |-> depth,
                                 total_nodes_count |-> count_total_nodes(nodes, root),
                                 frontier_count |-> Len(current_frontier)])
    /\ depth' = IF current_frontier = <<>> THEN max_steps + 1 ELSE depth + 1
    /\ pc' = "loop"
    /\ UNCHANGED <<ledger, max_steps, io_log, disk, hash_order, steps_dir,
                   token_minter, nodes, root, current_frontier, new_nodes, i,
                   runs, fetch_log, fetched, resolved, had, prev, before,
                   clean>>

\* count_total_nodes, then step_callback (main.py always supplies one);
\* next depth
Callback ==
    /\ pc = "callback"
    /\ cb_log' = Append(cb_log, [depth |-> depth,
                                 total_nodes_count |-> count_total_nodes(nodes, root),
                                 frontier_count |-> Len(current_frontier)])
    /\ depth' = depth + 1
    /\ pc' = "loop"
    /\ UNCHANGED <<ledger, max_steps, io_log, disk, hash_order, steps_dir,
                   token_minter, nodes, root, current_frontier, new_nodes, i,
                   runs, fetch_log, fetched, resolved, had, prev, before,
                   clean>>

\* range(1, max_steps + 1) is exhausted: run_scraper returns
Finish ==
    /\ pc = "loop"
    /\ depth > max_steps
    /\ pc' = "done"
    /\ prev' = [done |-> TRUE, tree |-> serialize_graph(nodes, root)]
    /\ UNCHANGED <<ledger, max_steps, io_log, disk, hash_order, steps_dir,
                   token_minter, nodes, root, current_frontier, new_nodes,
                   depth, i, runs, fetch_log, fetched, cb_log, resolved, had,
                   before, clean>>

\* what is left of a process that is gone: nothing in memory
Gone ==
    /\ hash_order' = <<>>
    /\ steps_dir' = None
    /\ token_minter' = NoAddr
    /\ nodes' = <<>>
    /\ root' = 0
    /\ current_frontier' = <<>>
    /\ new_nodes' = <<>>
    /\ depth' = 0
    /\ i' = 0
    /\ fetch_log' = <<>>
    /\ fetched' = {}
    /\ cb_log' = <<>>
    /\ io_log' = <<>>
    /\ resolved' = <<>>
    /\ had' = {}
    /\ before' = NoRun

\* the process is killed: everything in memory is lost, the files stay
Interrupt ==
    /\ Running
    /\ pc' = "killed"
    /\ Gone
    /\ UNCHANGED <<ledger, max_steps, disk, runs, prev, clean>>

\* between two runs a step file of the folder is deleted
RemoveStepFile(d) ==
    /\ pc \in {"done", "killed", "removed"}
    /\ runs < MaxRuns
    /\ disk[d].exists
    /\ disk' = [disk EXCEPT ![d] = NoFile]
    /\ pc' = "removed"
    /\ prev' = NoRun
    /\ clean' = FALSE
    /\ Gone
    /\ UNCHANGED <<ledger, max_steps, runs>>

\* the damaged node of a tree: its leftmost leaf, without the field
RECURSIVE DropField(_, _)
DropField(data, field) ==
    IF data.children # <<>>
    THEN [data EXCEPT !.children[1] = DropField(@, field)]
    ELSE IF field = "address" THEN [children |-> <<>>] ELSE [address |-> data.address]

\* one step file of the folder that the first run left is damaged: it loses
\* "root" or "frontier", or one of its nodes loses "address" or "children";
\* the damaged folder is run over once more
DamageStepFile(d, field) ==
    /\ pc \in {"done", "killed", "removed"}
    /\ runs = 1
    /\ disk[d].exists
    /\ disk' = [disk EXCEPT ![d] =
                  CASE field = "root" -> [exists |-> TRUE, frontier |-> @.frontier]
                    [] field = "frontier" -> [exists |-> TRUE, root |-> @.root]
                    [] OTHER -> [@ EXCEPT !.root = DropField(@, field)]]
    /\ runs' = MaxRuns - 1
    /\ pc' = "damaged"
    /\ prev' = NoRun
    /\ clean' = FALSE
    /\ Gone
    /\ UNCHANGED <<ledger, max_steps>>

\* the steps of run_scraper
Proceed ==
    \/ Step0
    \/ LoadStep
    \/ StartScrape
    \/ ProcessNode
    \/ SaveStep
    \/ Callback
    \/ Finish

\* a process takes the steps of run_scraper until it is killed
Run ==
    \/ Proceed
    \/ Interrupt

\* every crawler is built for the token whose metadata names Minter
Next ==
    \/ \E steps_folder \in {None, Folder} : Start(steps_folder, Minter)
    \/ Run
    \/ \E d \in 0..MaxSteps : RemoveStepFile(d)

Spec == Init /\ [][Next]_vars

\* the crawler over a folder whose files can also be damaged
NextDamaged ==
    \/ Next
    \/ \E d \in 0..MaxSteps, field \in {"root", "frontier", "address", "children"} :
          DamageStepFile(d, field)

SpecDamaged == Init /\ [][NextDamaged]_vars

\* a crawler can be built with any minter address, whatever the folder
\* holds; of the files of the folder, step_0.json can be deleted
NextMinters ==
    \/ \E steps_folder \in {None, Folder}, minter \in Addresses :
          Start(steps_folder, minter)
    \/ Run
    \/ RemoveStepFile(0)

SpecMinters == Init /\ [][NextMinters]_vars

\* the crawler over a ledger of four accounts
SpecWide == InitWide /\ [][Next]_vars

\* the crawler over a ledger of five accounts, one depth further, on a folder
\* from which no file is deleted
NextDeep ==
    \/ Start(Folder, Minter)
    \/ Run

SpecDeep == InitDeep /\ [][NextDeep]_vars

\* the process is about to open a step file: step_0.json, or the file of the
\* depth it has reached, which exists
OpensStepFile ==
    \/ pc = "step0"
    \/ pc = "loop" /\ depth <= max_steps /\ disk[depth].exists

\* a process that is not killed goes on: run_scraper is sequential code, and
\* every call it makes returns (the fetch returns a page or fails). Weak
\* fairness of the steps of run_scraper; for the two steps that open a step
\* file it is written out with their enabling condition, OpensStepFile
FairSpec ==
    /\ Spec
    /\ WF_vars(StartScrape \/ ProcessNode \/ SaveStep \/ Callback \/ Finish)
    /\ ([]<>(~OpensStepFile) \/ []<><<Step0 \/ LoadStep>>_vars)

\* ---------------------------------------------------------------- claims
\* the nodes reachable from node n through child lists
RECURSIVE Reachable(_, _)
Reachable(h, n) ==
    {n} \cup UNION {Reachable(h, h[n].children[k]) : k \in 1..Len(h[n].children)}

\* the addresses carried by the nodes reachable from n
AddressesOf(h, n) == {h[m].address : m \in Reachable(h, n)}

\* two trees agree in address, child count and child order at every level
RECURSIVE SameTree(_, _, _, _)
SameTree(h1, n1, h2, n2) ==
    /\ h1[n1].address = h2[n2].address
    /\ Len(h1[n1].children) = Len(h2[n2].children)
    /\ \A k \in 1..Len(h1[n1].children) :
          SameTree(h1, h1[n1].children[k], h2, h2[n2].children[k])

C10_RoundTrip ==
    /\ root # 0 =>
          LET r == deserialize_graph(nodes, serialize_graph(nodes, root))
          IN  /\ SameTree(nodes, root, r.heap, r.node)
              /\ r.node \notin Reachable(nodes, root)

\* C10 witness: a tree of depth 2 with a node that has two children in an
\* order that is not the order of their addresses
C10_Witness ==
    /\ root # 0
    /\ Len(nodes[root].children) = 2
    /\ nodes[nodes[root].children[1]].address = "M"
    /\ nodes[nodes[root].children[2]].address = "A"
    /\ \E k \in 1..2 : Len(nodes[nodes[root].children[k]].children) = 2

\* C1: when a run has completed over the folder and the folder was left as it
\* is, a later run calls fetch_transfers_for_address zero times and ends with
\* a tree equal, child order included, to the final tree of the completed run
C1_Resumability ==
    before.done =>
        /\ fetch_log = <<>>
        /\ pc = "done" => serialize_graph(nodes, root) = before.tree

\* C1 witness: a second run is done over the folder of a completed run whose
\* tree has two levels below the root
C1_Witness ==
    /\ pc = "done"
    /\ before.done
    /\ resolved = [d \in 1..MaxSteps |-> "load"]
    /\ Len(nodes[root].children) = 2
    /\ Cardinality(Reachable(nodes, root)) >= 5

\* ---- the uninterrupted run, as a function of the ledger
\* the scraping loop of one depth when every call succeeds
RECURSIVE ScrapeFrontier(_, _, _, _, _)
ScrapeFrontier(h, frontier, k, acc, order) ==
    IF k > Len(frontier) THEN [heap |-> h, new_nodes |-> acc]
    ELSE LET page == ListOfSet(ledger[h[frontier[k]].address], order)
             r == process_node_children(h, frontier[k],
                                        fetch_transfers_for_address(TRUE, page), order)
         IN  ScrapeFrontier(r.heap, frontier, k + 1, acc \o r.children, order)

\* memory of a run over an empty folder after depth d, nothing having failed
RECURSIVE FreshRun(_, _)
FreshRun(d, order) ==
    IF d = 0 THEN [heap |-> <<AccountNode(Minter)>>, root |-> 1, frontier |-> <<1>>]
    ELSE LET st == FreshRun(d - 1, order)
             r == ScrapeFrontier(st.heap, st.frontier, 1, <<>>, order)
         IN  [heap |-> r.heap, root |-> st.root, frontier |-> r.new_nodes]

\* the step file that one uninterrupted run writes for depth d
Uninterrupted(d) ==
    LET st == FreshRun(d, CHOOSE o \in ListOrders(Addresses) : TRUE)
    IN  save_graph_state_to_json(st.heap, st.root,
            [k \in 1..Len(st.frontier) |-> st.heap[st.frontier[k]].address])

\* the paths of addresses from the root of a serialized tree
RECURSIVE PathsOf(_)
PathsOf(data) ==
    {<<data.address>>} \cup
    UNION {{<<data.address>> \o p : p \in PathsOf(data.children[k])} :
              k \in 1..Len(data.children)}

\* the number of nodes of a serialized tree
RECURSIVE SizeOf(_)
RECURSIVE SizeFrom(_, _)
SizeFrom(datas, k) ==
    IF k > Len(datas) THEN 0 ELSE SizeOf(datas[k]) + SizeFrom(datas, k + 1)

SizeOf(data) == 1 + SizeFrom(data.children, 1)

\* how often each address occurs in a frontier list
BagOf(frontier) ==
    [a \in Addresses |-> Cardinality({k \in 1..Len(frontier) : frontier[k] = a})]

\* step files that are equal modulo the order of children
SameModuloOrder(f, g) ==
    /\ PathsOf(f.root) = PathsOf(g.root)
    /\ SizeOf(f.root) = SizeOf(g.root)
    /\ BagOf(f.frontier) = BagOf(g.frontier)

\* C2: with a fetcher that is a function of the address (no call fails) and a
\* folder nobody touches, whatever runs were interrupted before, every step
\* file on disk equals, modulo child order, the one an uninterrupted run
\* writes for that depth, and a run that is done holds the same final tree
C2_InterruptResume ==
    clean =>
        /\ \A d \in 1..MaxSteps :
              disk[d].exists => SameModuloOrder(disk[d], Uninterrupted(d))
        /\ pc = "done" =>
              /\ PathsOf(serialize_graph(nodes, root)) = PathsOf(Uninterrupted(MaxSteps).root)
              /\ SizeOf(serialize_graph(nodes, root)) = SizeOf(Uninterrupted(MaxSteps).root)

\* the same statement for a first run, which nothing interrupted before
UninterruptedAgrees ==
    clean /\ runs = 1 =>
        /\ \A d \in 1..MaxSteps :
              disk[d].exists => SameModuloOrder(disk[d], Uninterrupted(d))
        /\ pc = "done" =>
              PathsOf(serialize_graph(nodes, root)) = PathsOf(Uninterrupted(MaxSteps).root)

\* the number of calls of fetch_transfers_for_address this run made at depth d
FetchesAt(d) == Cardinality({k \in 1..Len(fetch_log) : fetch_log[k].depth = d})

\* C3: a step file for a depth d >= 1 appears on disk only in a step taken
\* when the scraping loop of depth d has processed every node of the working
\* frontier; while the loop is under way (and if the process is killed in it)
\* there is no file for that depth
C3_NoPartialDepth ==
    /\ [](pc = "scrape" => ~disk[depth].exists)
    /\ [][\A d \in 1..MaxSteps :
             ~disk[d].exists /\ disk'[d].exists =>
                /\ pc = "scrape" /\ depth = d
                /\ i > Len(current_frontier)
                /\ FetchesAt(d) = Len(current_frontier)
                /\ fetch_log' = fetch_log]_vars

\* C3 witness: the file of depth 2 is on disk after a scraping loop over a
\* frontier of two nodes
C3_Witness ==
    /\ pc = "callback" /\ depth = 2
    /\ resolved = <<"fresh", "fresh">>
    /\ i = 3
    /\ disk[2].exists

\* C4: a depth whose step file exists when the loop reaches it (the files that
\* existed when the run started) is resolved by loading and sees no call of
\* fetch_transfers_for_address; calls are made only at depths without a file,
\* so none below the first depth that had no file
C4_NoFetchAtCheckpointedDepth ==
    /\ \A d \in 1..Len(resolved) : (resolved[d] = "load") <=> (d \in had)
    /\ \A k \in 1..Len(fetch_log) : fetch_log[k].depth \notin had
    /\ \A d \in 1..MaxSteps : (\A e \in 1..d : e \in had) => FetchesAt(d) = 0

\* C4 witness: a run loaded depth 1 from its file and made calls at depth 2
C4_Witness ==
    /\ resolved = <<"load", "fresh">>
    /\ had = {0, 1}
    /\ FetchesAt(2) = 2

\* C5: after a fresh expansion the addresses of the new frontier, and those
\* of the frontier list in the step file, are the non-empty destinations of
\* the pages the calls of that depth returned
C5_FrontierCorrectness ==
    pc = "callback" /\ resolved[depth] = "fresh" =>
        /\ {nodes[current_frontier[k]].address : k \in 1..Len(current_frontier)} = fetched
        /\ Range(disk[depth].frontier) = fetched

\* C5 witness: a depth with two frontier nodes, one of which named both
\* addresses and the other one of them again
C5_Witness ==
    /\ pc = "callback" /\ depth = 2 /\ resolved = <<"fresh", "fresh">>
    /\ Len(disk[2].frontier) = 3
    /\ fetched = Addresses

\* C6: a failed call leaves its node without children, the loop goes on to the
\* next node (one call per node, failed or not), the depth is saved and
\* reported like any other, and the run is never aborted by it
C6_FetchFailureAbsorbed ==
    /\ pc = "aborted" => fetch_log = <<>>
    /\ pc = "scrape" \/ (pc = "callback" /\ resolved[depth] = "fresh") =>
          FetchesAt(depth) = i - 1
    /\ pc = "scrape" /\ i > 1 /\ ~fetch_log[Len(fetch_log)].ok =>
          nodes[current_frontier[i - 1]].children = <<>>
    /\ \A k \in 1..Len(fetch_log) :
          ~fetch_log[k].ok /\ (fetch_log[k].depth < depth \/ pc = "callback") =>
             /\ disk[fetch_log[k].depth].exists
             /\ fetch_log[k].depth < depth =>
                   /\ Len(cb_log) >= fetch_log[k].depth
                   /\ cb_log[fetch_log[k].depth].depth = fetch_log[k].depth

\* C6 witness: at depth 2 the call for the first node failed, the second
\* node was processed and got children, and the run is done
C6_Witness ==
    /\ pc = "done"
    /\ \E k \in 1..Len(fetch_log) - 1 :
          /\ fetch_log[k].depth = 2 /\ fetch_log[k + 1].depth = 2
          /\ ~fetch_log[k].ok /\ fetch_log[k + 1].ok
    /\ disk[2].frontier # <<>>
    /\ Len(cb_log) = 2

\* C7: when a fresh expansion at depth k leaves an empty frontier, no call is
\* made at depth k+1; and when the file of depth k+1 was already there, depth
\* k+1 is loaded from it and reported to the observer
C7_EarlyStopFetchSide ==
    \A k \in 1..MaxSteps - 1 :
        Len(resolved) >= k /\ resolved[k] = "fresh" /\ disk[k].frontier = <<>> =>
           /\ FetchesAt(k + 1) = 0
           /\ k + 1 \in had /\ Len(resolved) >= k + 1 =>
                 /\ resolved[k + 1] = "load"
                 /\ pc = "callback" /\ depth = k + 1 =>
                       serialize_graph(nodes, root) = disk[k + 1].root
                 /\ depth > k + 1 =>
                       /\ cb_log[k + 1].depth = k + 1
                       /\ cb_log[k + 1].frontier_count <= Len(disk[k + 1].frontier)

\* C7 witness: depth 1 was expanded afresh and gave nothing, the file of
\* depth 2 was on disk with a frontier, and depth 2 was loaded and reported
C7_Witness ==
    /\ pc = "done"
    /\ resolved = <<"fresh", "load">>
    /\ disk[1].frontier = <<>>
    /\ disk[2].frontier # <<>>
    /\ cb_log[2].frontier_count > 0

\* C8 as stated: once a fresh expansion at depth k leaves an empty frontier,
\* a later depth that had no file gets no file and no observer call
C8_EarlyTermination ==
    \A k \in 1..MaxSteps - 1 : \A d \in (k + 1)..MaxSteps :
        Len(resolved) >= k /\ resolved[k] = "fresh" /\ disk[k].frontier = <<>>
        /\ d \notin had =>
           /\ ~disk[d].exists
           /\ \A c \in 1..Len(cb_log) : cb_log[c].depth # d

\* C8 amended: the loop does not stop; a run that is done resolved every
\* depth 1..max_steps, each with a file and an observer call, and a depth that
\* is expanded afresh right after a fresh depth with an empty frontier makes
\* no call, saves the same tree with an empty frontier and is reported with
\* frontier size 0
C8_NoEarlyTermination ==
    /\ pc = "done" =>
          /\ Len(resolved) = MaxSteps /\ Len(cb_log) = MaxSteps
          /\ \A d \in 1..MaxSteps : disk[d].exists /\ cb_log[d].depth = d
    /\ \A k \in 1..MaxSteps - 1 :
          /\ Len(resolved) >= k + 1
          /\ resolved[k] = "fresh" /\ disk[k].frontier = <<>>
          /\ resolved[k + 1] = "fresh"
          => /\ FetchesAt(k + 1) = 0
             /\ disk[k + 1].exists
             /\ disk[k + 1].root = disk[k].root
             /\ disk[k + 1].frontier = <<>>
             /\ Len(cb_log) >= k + 1 =>
                   /\ cb_log[k + 1].frontier_count = 0
                   /\ cb_log[k + 1].total_nodes_count = cb_log[k].total_nodes_count

\* C8 witness: a run over an empty folder whose depth 1 gave nothing is done,
\* with depth 2 saved and reported
C8_Witness ==
    /\ pc = "done"
    /\ resolved = <<"fresh", "fresh">>
    /\ disk[1].frontier = <<>>
    /\ disk[2].exists
    /\ Len(cb_log) = 2

\* C11: the observer is called exactly once for each depth the run has
\* resolved, the k-th call being the call for depth k (so the depths are
\* 1, 2, ... in increasing order), and a depth is reported only when its step
\* file is on disk, loaded or just written
C11_ObserverOrdering ==
    /\ \A k \in 1..Len(cb_log) :
          /\ cb_log[k].depth = k
          /\ cb_log[k].depth >= 1
          /\ disk[k].exists
    /\ Len(cb_log) = (IF pc = "callback" THEN Len(resolved) - 1 ELSE Len(resolved))
    /\ pc = "callback" => Len(resolved) = depth /\ disk[depth].exists
    /\ pc = "done" => Len(cb_log) = max_steps

\* C11 witness: a run that loaded depth 1 and expanded depth 2 afresh is done,
\* the observer having been called for depth 1 and then for depth 2
C11_Witness ==
    /\ pc = "done"
    /\ resolved = <<"load", "fresh">>
    /\ Len(cb_log) = 2
    /\ cb_log[1].depth = 1 /\ cb_log[2].depth = 2

\* C12: a run that was given no steps folder (steps_folder is None) is aborted
\* before any work: it makes no call of the API, opens no step file to read or
\* to write, leaves the folder with the files it had, resolves no depth and
\* never calls the observer
C12_ConfigurationError ==
    steps_dir = None /\ pc \notin {"idle", "killed", "removed", "damaged"} =>
        /\ pc = "aborted"
        /\ fetch_log = <<>>
        /\ io_log = <<>>
        /\ cb_log = <<>>
        /\ resolved = <<>>
        /\ {d \in 0..MaxSteps : disk[d].exists} = had

\* C12 witness: a run without steps folder was aborted while the folder of an
\* earlier run, with its step files, exists
C12_Witness ==
    /\ pc = "aborted"
    /\ steps_dir = None
    /\ runs = 2
    /\ had = 0..MaxSteps

\* the run is about to open a step file that exists and cannot be loaded
AtUnreadableFile ==
    /\ \/ pc = "step0"
       \/ pc = "loop" /\ depth <= max_steps
    /\ disk[depth].exists
    /\ load_graph_state_from_json_raises(disk[depth])

\* C13: when the run reaches a depth d >= 0 whose step file exists but lacks
\* "root", "frontier", or the "address" or "children" of one of its nodes, its
\* next step aborts it at depth d (unless the process is killed first); the
\* aborting step changes no file, and the aborted run has made no call of the
\* API, written no step file and called no observer for depth d or a later
\* depth
C13_CheckpointFormatError ==
    /\ [](pc = "format_error" =>
            /\ disk[depth].exists
            /\ load_graph_state_from_json_raises(disk[depth])
            /\ Len(resolved) = (IF depth = 0 THEN 0 ELSE depth - 1)
            /\ \A k \in 1..Len(fetch_log) : fetch_log[k].depth < depth
            /\ \A k \in 1..Len(cb_log) : cb_log[k].depth < depth
            /\ \A k \in 1..Len(io_log) :
                  io_log[k].op = "write" => io_log[k].depth < depth)
    /\ [][/\ pc' = "format_error" => disk' = disk
          /\ AtUnreadableFile => pc' \in {"format_error", "killed"} /\ disk' = disk]_vars

\* C13 witness: the file of depth 1 was absent and the file of depth 2 damaged;
\* the run expanded depth 1, with calls of the API, and was aborted at depth 2
C13_Witness ==
    /\ pc = "format_error"
    /\ depth = 2
    /\ resolved = <<"fresh">>
    /\ fetch_log # <<>>
    /\ Len(cb_log) = 1

\* C14: a run that finds no step_0.json creates it from the root it was built
\* with: that root alone, with the frontier [root.address].  A run that finds
\* one reads it and never rewrites it, and the tree of the file replaces the
\* root in memory, whatever minter the crawler was built with.  In every
\* state the frontier of step_0.json is [address of its root]
C14_DepthZeroProtocol ==
    /\ disk[0].exists => disk[0].frontier = <<disk[0].root.address>>
    /\ Running /\ pc # "step0" =>
          /\ disk[0].exists
          /\ \A k \in 2..Len(io_log) : io_log[k].depth # 0
          /\ 0 \notin had =>
                /\ io_log[1] = [op |-> "write", depth |-> 0]
                /\ disk[0] = save_graph_state_to_json(<<AccountNode(token_minter)>>, 1,
                                                       <<token_minter>>)
          /\ 0 \in had => io_log[1] = [op |-> "read", depth |-> 0]
          /\ pc = "loop" /\ depth = 1 =>
                /\ serialize_graph(nodes, root) = disk[0].root
                /\ current_frontier = <<root>>

\* C14 witness: a crawler built with minter A runs over a folder whose
\* step_0.json has the root M; it has read the file and its root is M
C14_Witness ==
    /\ pc = "loop" /\ depth = 1
    /\ 0 \in had
    /\ token_minter = "A"
    /\ disk[0].root.address = "M"
    /\ nodes[root].address = "M"

\* one iteration of the scraping loop has been made: a frontier node expanded
Expansion == pc = "scrape" /\ pc' = "scrape" /\ i' = i + 1

\* C15: every node of the working tree, identified by its path of addresses
\* from the root, is still in the working tree after the expansion of a
\* frontier node, in fresh and in resumed runs
C15_TreeOnlyGrows ==
    [][Expansion =>
          PathsOf(serialize_graph(nodes, root)) \subseteq
              PathsOf(serialize_graph(nodes', root'))]_vars

\* the same for the expansions of a run over an empty folder, whose frontier
\* nodes are the childless nodes the run has just created
TreeOnlyGrowsFresh ==
    [][Expansion /\ had = {} =>
          PathsOf(serialize_graph(nodes, root)) \subseteq
              PathsOf(serialize_graph(nodes', root'))]_vars

\* C16: when a depth has just been resolved from its step file, every address
\* of the file's frontier list that is the address of a node of the loaded
\* tree has a node of that tree, with that address, in the working frontier
C16_FrontierResolution ==
    pc = "callback" /\ resolved[depth] = "load" =>
        \A a \in Range(disk[depth].frontier) :
            a \in AddressesOf(nodes, root) =>
               \E k \in 1..Len(current_frontier) :
                  /\ nodes[current_frontier[k]].address = a
                  /\ current_frontier[k] \in Reachable(nodes, root)

\* the addresses of the nodes of a serialized tree that lie n levels below its
\* root, and of those among them that have no children
RECURSIVE NodesAt(_, _)
NodesAt(data, n) ==
    IF n = 0 THEN {data.address}
    ELSE UNION {NodesAt(data.children[k], n - 1) : k \in 1..Len(data.children)}

RECURSIVE LeavesAt(_, _)
LeavesAt(data, n) ==
    IF n = 0 THEN (IF data.children = <<>> THEN {data.address} ELSE {})
    ELSE UNION {LeavesAt(data.children[k], n - 1) : k \in 1..Len(data.children)}

\* a step file of depth d as the data model describes it
WellFormedStep(file, d) ==
    /\ \A a \in Range(file.frontier) : a \in LeavesAt(file.root, d)
    /\ NodesAt(file.root, d + 1) = {}
    /\ (file.frontier = <<>>) <=> (NodesAt(file.root, d) = {})

\* C17: in every step file of a depth d >= 1 that the crawler has written, in
\* fresh and in resumed runs, each address of the frontier list is the address
\* of a childless node of the file's tree at depth d, the tree has no node
\* below depth d, and the frontier list is empty exactly when the tree has no
\* node at depth d
C17_CheckpointWellFormed ==
    \A d \in 1..MaxSteps : disk[d].exists => WellFormedStep(disk[d], d)

\* the same for the files of a first run over an empty folder
CheckpointWellFormedFresh ==
    runs = 1 => \A d \in 1..MaxSteps : disk[d].exists => WellFormedStep(disk[d], d)

\* the child lists of the first n nodes of a frontier, one after the other
RECURSIVE ChildrenOf(_, _, _)
ChildrenOf(h, frontier, n) ==
    IF n = 0 THEN <<>>
    ELSE ChildrenOf(h, frontier, n - 1) \o h[frontier[n]].children

\* C18: when process_node_children has returned for a frontier node, the
\* children of the node have pairwise distinct addresses, these addresses are
\* the non-empty destinations of the transfers fetched for the node, one
\* child each, and every child is childless; the children of all the nodes
\* processed so far are collected in new_nodes, none dropped because another
\* source has a child with the same address
C18_PerSourceDedup ==
    pc = "scrape" /\ i > 1 =>
        LET node == current_frontier[i - 1]
            kids == nodes[node].children
            call == fetch_log[Len(fetch_log)]
        IN  /\ call.address = nodes[node].address
            /\ \A k, l \in 1..Len(kids) :
                  nodes[kids[k]].address = nodes[kids[l]].address => k = l
            /\ {nodes[kids[k]].address : k \in 1..Len(kids)} = call.to
            /\ Len(kids) = Cardinality(call.to)
            /\ \A k \in 1..Len(kids) : nodes[kids[k]].children = <<>>
            /\ new_nodes = ChildrenOf(nodes, current_frontier, i - 1)

\* C18 witness: two sources of the same depth have been processed, each got a
\* child with address A, and both children are in new_nodes
C18_Witness ==
    /\ pc = "scrape" /\ depth = 2 /\ i = 3
    /\ \A n \in 1..2 :
          \E k \in 1..Len(nodes[current_frontier[n]].children) :
             nodes[nodes[current_frontier[n]].children[k]].address = "A"
    /\ Cardinality({k \in 1..Len(new_nodes) : nodes[new_nodes[k]].address = "A"}) = 2

\* the run has returned from run_scraper having opened the step files in
\* increasing order of depth, each once, and resolved the depths 1..max_steps
\* one after the other
DoneInOrder ==
    /\ pc = "done"
    /\ depth = max_steps + 1
    /\ Len(resolved) = max_steps
    /\ Len(io_log) = max_steps + 1
    /\ \A k \in 1..Len(io_log) : io_log[k].depth = k - 1
    /\ \A k \in 1..Len(fetch_log) - 1 : fetch_log[k].depth <= fetch_log[k + 1].depth

\* C19: a run that was given a steps folder and is not killed reaches the end
\* of run_scraper, whatever the ledger (also when an address recurs along a
\* branch of the tree), having resolved the depths 1..max_steps in increasing
\* order, each once
C19_Termination ==
    /\ [](/\ depth <= max_steps + 1
          /\ \A k \in 1..Len(io_log) : io_log[k].depth = k - 1)
    /\ (pc = "step0") ~> (DoneInOrder \/ pc = "killed")

\* C19 witness: a run is done whose tree has the minter's address on every
\* level of a branch
C19_Witness ==
    /\ pc = "done"
    /\ resolved = [d \in 1..MaxSteps |-> "fresh"]
    /\ \E p \in PathsOf(serialize_graph(nodes, root)) :
          Len(p) = MaxSteps + 1 /\ \A k \in 1..Len(p) : p[k] = Minter

\* C20: in a run that expanded every depth afresh, the total node count given
\* to step_callback at a depth is not below the count given at the depth before
C20_NodeCountMonotone ==
    (\A d \in 1..Len(resolved) : resolved[d] = "fresh") =>
        \A k \in 1..Len(cb_log) - 1 :
            cb_log[k].total_nodes_count <= cb_log[k + 1].total_nodes_count

\* C21: the frontier count given to step_callback for depth d is the length of
\* the frontier list stored in step_d.json, when the run expanded depth d and
\* when it loaded the file that an expansion had written
C21_FrontierCountAsStored ==
    \A k \in 1..Len(cb_log) :
        /\ disk[cb_log[k].depth].exists
        /\ cb_log[k].frontier_count = Len(disk[cb_log[k].depth].frontier)

\* the same statement for the depths that the run expanded
FrontierCountAsStoredFresh ==
    \A k \in 1..Len(cb_log) :
        resolved[k] = "fresh" =>
            /\ disk[cb_log[k].depth].exists
            /\ cb_log[k].frontier_count = Len(disk[cb_log[k].depth].frontier)

\* C22: a run leaves every step file that existed when it started as it was,
\* writes only files that did not exist, and writes the file of a depth at most
\* once
C22_ExistingFilesUntouched ==
    /\ [](\A j, k \in 1..Len(io_log) :
            io_log[k].op = "write" =>
                /\ io_log[k].depth \notin had
                /\ io_log[j].op = "write" /\ io_log[j].depth = io_log[k].depth
                      => j = k)
    /\ [][Running =>
            /\ \A d \in had : disk'[d] = disk[d]
            /\ \A d \in 0..max_steps :
                  disk'[d] # disk[d] =>
                      /\ ~disk[d].exists
                      /\ io_log' = Append(io_log, [op |-> "write", depth |-> d])]_vars

\* C22 witness: a run that found some step files and not others has written
\* the missing ones and is done
C22_Witness ==
    /\ pc = "done"
    /\ had # {}
    /\ \E k \in 1..Len(io_log) : io_log[k].op = "write"
    /\ \A d \in 0..max_steps : disk[d].exists
====
